---- MODULE Spec2Model ----
(***************************************************************************)
(* A model of package fileutils (fileutils.go): the recursive copy         *)
(* CpWithArgs with its wrappers Cp and CpR, and the recursive chmod ChmodR,*)
(* run against a small POSIX file system.                                  *)
(*                                                                         *)
(* The file system is a function from paths (sequences of names, relative  *)
(* to a working directory that always exists) to nodes.  A node is a       *)
(* regular file, a directory or a symbolic link; its mode is the owner's   *)
(* permission bits (4 = read, 2 = write, 1 = search/execute), the calling  *)
(* process being the owner of every entry.  The os and ioutil calls the    *)
(* package makes are operators on that file system that return the error   *)
(* the system call returns.                                                *)
(*                                                                         *)
(* Each behaviour takes one file system and makes one library call on it:  *)
(* a call keeps nothing between invocations (fileutils.go holds no         *)
(* package-level state).                                                   *)
(***************************************************************************)
EXTENDS Integers, Sequences, FiniteSets

VARIABLES
    fs,          \* the file system: path -> node
    privileged,  \* the process bypasses permission checks (runs as root)
    pc,          \* "idle" before the library call, "returned" after it
    last,        \* the call made: operation and arguments
    pre,         \* the file system as it was when the call started
    err,         \* the error the call returned ("nil": none)
    open,        \* the file handles open in the process
    trace        \* what the call did, in order

vars == <<fs, privileged, pc, last, pre, err, open, trace>>

----------------------------------------------------------------------------
(* Bounds *)

\* The longest path, in components, a system call accepts (PATH_MAX).
PathMax == 3

\* The number of symbolic links one path resolution follows (MAXSYMLINKS).
MaxSymlinks == 2

Names == {"a", "b"}

\* The names in byte order, the order ioutil.ReadDir and filepath.Walk sort by.
NameOrder == <<"a", "b">>

\* The paths the caller passes to the library.
ArgPaths == {<<x>> : x \in Names} \cup {<<x, y>> : x \in Names, y \in Names}

----------------------------------------------------------------------------
(* The file system *)

Root == <<>>

File(c, m, t) == [kind |-> "file", mode |-> m, content |-> c, target |-> <<>>, mtime |-> t]

Dir(m) == [kind |-> "dir", mode |-> m, content |-> 0, target |-> <<>>, mtime |-> 0]

\* A symbolic link's own mode, as lstat reports it, is rwx.
Link(tgt) == [kind |-> "link", mode |-> 7, content |-> 0, target |-> tgt, mtime |-> 0]

NoNode == [kind |-> "none", mode |-> 0, content |-> 0, target |-> <<>>, mtime |-> 0]

Has(f, p) == p = Root \/ p \in DOMAIN f

NodeAt(f, p) == IF p = Root THEN Dir(7) ELSE IF p \in DOMAIN f THEN f[p] ELSE NoNode

Put(f, p, n) == [q \in (DOMAIN f) \cup {p} |-> IF q = p THEN n ELSE f[q]]

Parent(p) == SubSeq(p, 1, Len(p) - 1)

IsPrefix(p, q) == Len(p) <= Len(q) /\ SubSeq(q, 1, Len(p)) = p

CanRead(n) == privileged \/ n.mode \div 4 = 1

CanWrite(n) == privileged \/ (n.mode \div 2) % 2 = 1

CanSearch(n) == privileged \/ n.mode % 2 = 1

\* Path resolution: cur is the directory reached, rest what is left of the
\* path, follow says whether a link in the last position is followed, n counts
\* the links followed.  A link's target is resolved from the working directory.
RECURSIVE namei(_, _, _, _, _)
namei(f, cur, rest, follow, n) ==
    IF rest = <<>> THEN [err |-> "nil", path |-> cur, last |-> FALSE]
    ELSE IF NodeAt(f, cur).kind # "dir" THEN [err |-> "ENOTDIR", path |-> cur, last |-> FALSE]
    ELSE IF ~CanSearch(NodeAt(f, cur)) THEN [err |-> "EACCES", path |-> cur, last |-> FALSE]
    ELSE LET nxt == Append(cur, Head(rest)) IN
         IF ~Has(f, nxt) THEN [err |-> "ENOENT", path |-> nxt, last |-> Len(rest) = 1]
         ELSE IF f[nxt].kind = "link" /\ (Len(rest) > 1 \/ follow) THEN
             IF n >= MaxSymlinks THEN [err |-> "ELOOP", path |-> nxt, last |-> FALSE]
             ELSE namei(f, Root, f[nxt].target \o Tail(rest), follow, n + 1)
         ELSE namei(f, nxt, Tail(rest), follow, n)

Resolve(f, p, follow) ==
    IF Len(p) > PathMax THEN [err |-> "ENAMETOOLONG", path |-> p, last |-> FALSE]
    ELSE namei(f, Root, p, follow, 0)

----------------------------------------------------------------------------
(* The system calls the package makes *)

Stat(f, p) ==
    LET r == Resolve(f, p, TRUE) IN
    [err |-> r.err, info |-> IF r.err = "nil" THEN NodeAt(f, r.path) ELSE NoNode]

Lstat(f, p) ==
    LET r == Resolve(f, p, FALSE) IN
    [err |-> r.err, info |-> IF r.err = "nil" THEN NodeAt(f, r.path) ELSE NoNode]

\* os.Open: O_RDONLY.  The handle names the node opened.
Open(f, p) ==
    LET r == Resolve(f, p, TRUE) IN
    IF r.err # "nil" THEN [err |-> r.err, node |-> Root]
    ELSE IF ~CanRead(NodeAt(f, r.path)) THEN [err |-> "EACCES", node |-> Root]
    ELSE [err |-> "nil", node |-> r.path]

\* What open(2) gives a file it creates: 0666 less the umask, owner bits rw.
CreateMode == 6

\* os.Create: O_RDWR|O_CREATE|O_TRUNC, 0666.  An existing file is truncated,
\* a missing one (also the missing target of a link) is created.
Create(f, p) ==
    LET r == Resolve(f, p, TRUE)
        n == NodeAt(f, r.path)
    IN  IF r.err = "nil" THEN
            IF n.kind = "dir" THEN [err |-> "EISDIR", fs |-> f, node |-> Root]
            ELSE IF ~(CanRead(n) /\ CanWrite(n)) THEN [err |-> "EACCES", fs |-> f, node |-> Root]
            ELSE [err |-> "nil", fs |-> Put(f, r.path, File(0, n.mode, 1)), node |-> r.path]
        ELSE IF r.err = "ENOENT" /\ r.last THEN
            IF ~CanWrite(NodeAt(f, Parent(r.path))) THEN [err |-> "EACCES", fs |-> f, node |-> Root]
            ELSE [err |-> "nil", fs |-> Put(f, r.path, File(0, CreateMode, 1)), node |-> r.path]
        ELSE [err |-> r.err, fs |-> f, node |-> Root]

\* mkdir(2) and symlink(2): a new entry n at p, which must not exist.
MakeEntry(f, p, n) ==
    LET r == Resolve(f, p, FALSE) IN
    IF r.err = "nil" THEN [err |-> "EEXIST", fs |-> f]
    ELSE IF r.err = "ENOENT" /\ r.last THEN
        IF ~CanWrite(NodeAt(f, Parent(r.path))) THEN [err |-> "EACCES", fs |-> f]
        ELSE [err |-> "nil", fs |-> Put(f, r.path, n)]
    ELSE [err |-> r.err, fs |-> f]

Mkdir(f, p, mode) == MakeEntry(f, p, Dir(mode))

Symlink(tgt, f, p) == MakeEntry(f, p, Link(tgt))

Readlink(f, p) ==
    LET r == Resolve(f, p, FALSE) IN
    IF r.err # "nil" THEN [err |-> r.err, target |-> <<>>]
    ELSE IF NodeAt(f, r.path).kind # "link" THEN [err |-> "EINVAL", target |-> <<>>]
    ELSE [err |-> "nil", target |-> f[r.path].target]

\* os.MkdirAll: nothing to do for an existing directory; otherwise the parent
\* first (with the same mode), then the directory itself.
RECURSIVE MkdirAll(_, _, _)
MkdirAll(f, p, mode) ==
    LET st == Stat(f, p) IN
    IF st.err = "nil" THEN
        IF st.info.kind = "dir" THEN [err |-> "nil", fs |-> f] ELSE [err |-> "ENOTDIR", fs |-> f]
    ELSE LET up == IF Len(p) > 1 THEN MkdirAll(f, Parent(p), mode) ELSE [err |-> "nil", fs |-> f] IN
         IF up.err # "nil" THEN up
         ELSE LET mk == Mkdir(up.fs, p, mode) IN
              IF mk.err # "nil" /\ Lstat(up.fs, p).info.kind = "dir" THEN [err |-> "nil", fs |-> up.fs]
              ELSE mk

\* The names in directory d, sorted.
RECURSIVE SortedNames(_, _, _)
SortedNames(f, d, i) ==
    IF i > Len(NameOrder) THEN <<>>
    ELSE (IF Append(d, NameOrder[i]) \in DOMAIN f THEN <<NameOrder[i]>> ELSE <<>>)
         \o SortedNames(f, d, i + 1)

\* ioutil.ReadDir: open the directory, lstat every name in it (which wants
\* search permission once there is a name), close, sort by name.
ReadDir(f, p) ==
    LET o == Open(f, p) IN
    IF o.err # "nil" THEN [err |-> o.err, names |-> <<>>]
    ELSE IF NodeAt(f, o.node).kind # "dir" THEN [err |-> "ENOTDIR", names |-> <<>>]
    ELSE LET names == SortedNames(f, o.node, 1) IN
         IF names # <<>> /\ ~CanSearch(NodeAt(f, o.node)) THEN [err |-> "EACCES", names |-> <<>>]
         ELSE [err |-> "nil", names |-> names]

\* os.Chmod follows links.
Chmod(f, p, mode) ==
    LET r == Resolve(f, p, TRUE) IN
    IF r.err # "nil" THEN [err |-> r.err, fs |-> f]
    ELSE IF r.path = Root THEN [err |-> "nil", fs |-> f]
    ELSE [err |-> "nil", fs |-> [f EXCEPT ![r.path].mode = mode]]

\* os.Chtimes follows links.
Chtimes(f, p, t) ==
    LET r == Resolve(f, p, TRUE) IN
    IF r.err # "nil" THEN [err |-> r.err, fs |-> f]
    ELSE IF r.path = Root THEN [err |-> "nil", fs |-> f]
    ELSE [err |-> "nil", fs |-> [f EXCEPT ![r.path].mtime = t]]

----------------------------------------------------------------------------
(* What a call threads through its steps: the file system, the open handles, *)
(* the trace, and the error it returns.                                      *)

Ev(kind, src, dst, what, e) == [ev |-> kind, src |-> src, dst |-> dst, what |-> what, err |-> e]

Log(st, e) == [st EXCEPT !.trace = Append(@, e)]

OpenHandle(st, node, role) == [st EXCEPT !.open = Append(@, [node |-> node, role |-> role])]

\* f.Close(): the handle opened last on that node in that role goes.
RECURSIVE CloseHandle(_, _, _)
CloseHandle(handles, node, role) ==
    IF handles = <<>> THEN <<>>
    ELSE IF handles[Len(handles)] = [node |-> node, role |-> role]
         THEN SubSeq(handles, 1, Len(handles) - 1)
         ELSE Append(CloseHandle(SubSeq(handles, 1, Len(handles) - 1), node, role),
                     handles[Len(handles)])

Close(st, node, role) == [st EXCEPT !.open = CloseHandle(@, node, role)]

\* A return of CpWithArgs(source, dest, ...) with error e.
Ret(st, source, dest, e) ==
    [fs |-> st.fs, open |-> st.open, err |-> e,
     trace |-> Append(st.trace, Ev("ret", source, dest, "", e))]

CpArgs == [Recursive : BOOLEAN, PreserveLinks : BOOLEAN, PreserveTimestamps : BOOLEAN]

\* The stages of a file copy an I/O error is injected into; open and create
\* fail by themselves on what the file system holds.
Faults == {"none", "copy", "chmod", "chtimes", "sync"}

Injected(fault, stage) == IF fault = stage THEN "EIO" ELSE "nil"

----------------------------------------------------------------------------
(* CpWithArgs *)

cpSymlink(f, src, dest) ==
    LET l == Readlink(f, src) IN
    IF l.err # "nil" THEN [err |-> l.err, fs |-> f]
    ELSE Symlink(l.target, f, dest)

\* io.Copy(out, in): the bytes of in, as they are now, become those of out.
\* A failed copy leaves out as it was created: nothing written.
IoCopy(f, out, in, fault) ==
    IF fault = "copy" THEN [err |-> "EIO", fs |-> f]
    ELSE [err |-> "nil", fs |-> [f EXCEPT ![out].content = f[in].content]]

\* A copy that leaves out with the mode os.Create gave it.
FchmodDropped(f, out, mode, fault) == [err |-> Injected(fault, "chmod"), fs |-> f]

\* out.Chmod(si.Mode())
Fchmod(f, out, mode, fault) ==
    IF fault = "chmod" THEN [err |-> "EIO", fs |-> f]
    ELSE [err |-> "nil", fs |-> [f EXCEPT ![out].mode = mode]]

\* The deferred in.Close() of line 122 and out.Close() of lines 129..134, run
\* at a return; h holds the nodes the two handles are open on.
Deferred(st, h) == Close(Close(st, h.out, "out"), h.in, "in")

\* Line 152 and the return of line 155.  The error of out.Sync() goes to the
\* err the else block declared on line 108; line 155 returns the named result
\* err, which is what line 72 left in it.
SyncDest(st, source, dest, fault, result, h) ==
    Ret(Deferred(Log(st, Ev("stage", source, dest, "sync", Injected(fault, "sync"))), h),
        source, dest, result)

\* Lines 145..149.
ChtimesDest(st, source, dest, args, fault, result, si, h) ==
    IF ~args.PreserveTimestamps THEN SyncDest(st, source, dest, fault, result, h)
    ELSE LET ct == IF fault = "chtimes" THEN [err |-> "EIO", fs |-> st.fs]
                   ELSE Chtimes(st.fs, dest, si.mtime)
             s == Log([st EXCEPT !.fs = ct.fs], Ev("stage", source, dest, "chtimes", ct.err))
         IN  IF ct.err # "nil" THEN Ret(Deferred(s, h), source, dest, ct.err)
             ELSE SyncDest(s, source, dest, fault, result, h)

\* Lines 141..143.
ChmodDest(st, source, dest, args, fault, result, si, h) ==
    LET ch == Fchmod(st.fs, h.out, si.mode, fault)
        s == Log([st EXCEPT !.fs = ch.fs], Ev("stage", source, dest, "chmod", ch.err))
    IN  IF ch.err # "nil" THEN Ret(Deferred(s, h), source, dest, ch.err)
        ELSE ChtimesDest(s, source, dest, args, fault, result, si, h)

\* Lines 136..139.
CopyBytes(st, source, dest, args, fault, result, si, h) ==
    LET cp == IoCopy(st.fs, h.out, h.in, fault)
        s == Log([st EXCEPT !.fs = cp.fs], Ev("stage", source, dest, "copy", cp.err))
    IN  IF cp.err # "nil" THEN Ret(Deferred(s, h), source, dest, cp.err)
        ELSE ChmodDest(s, source, dest, args, fault, result, si, h)

\* Lines 124..134; in is the node the source handle is open on.
CreateDest(st, source, dest, args, fault, result, si, in) ==
    LET out == Create(st.fs, dest)
        s == Log([st EXCEPT !.fs = out.fs], Ev("stage", source, dest, "create", out.err))
    IN  IF out.err # "nil" THEN Ret(Close(s, in, "in"), source, dest, out.err)
        ELSE CopyBytes(OpenHandle(s, out.node, "out"), source, dest, args, fault, result, si,
                       [in |-> in, out |-> out.node])

\* Lines 117..122.
OpenSource(st, source, dest, args, fault, result, si) ==
    LET in == Open(st.fs, source)
        s == Log(st, Ev("stage", source, dest, "open", in.err))
    IN  IF in.err # "nil" THEN Ret(s, source, dest, in.err)
        ELSE CreateDest(OpenHandle(s, in.node, "in"), source, dest, args, fault, result, si,
                        in.node)

\* The file case.  result is the named result err as line 72 left it: the
\* else block declares an err of its own on line 108, and every err below is
\* that one.  The deferred closure of lines 129..134 assigns it too, after the
\* result is set: a Close error reaches no one.
CpFile(st, source, dest, args, fault, result) ==
    LET si == Lstat(st.fs, source) IN
    IF si.err # "nil" THEN Ret(st, source, dest, si.err)
    ELSE IF args.PreserveLinks /\ si.info.kind # "file" THEN
        LET l == cpSymlink(st.fs, source, dest) IN
        Ret(Log([st EXCEPT !.fs = l.fs], Ev("stage", source, dest, "symlink", l.err)),
            source, dest, l.err)
    ELSE OpenSource(st, source, dest, args, fault, result, si.info)

\* A test of the Recursive option that lets every directory through.
RefusesDirectoryNever(args) == FALSE

\* if !args.Recursive
RefusesDirectory(args) == ~args.Recursive

\* A test of the destination that finds none.
DestinationExistsNever(e) == FALSE

\* !os.IsNotExist(err)
DestinationExists(e) == e # "ENOENT"

\* if err = CpWithArgs(...); err != nil
StopsLoop(e) == e # "nil"

RECURSIVE CpWithArgs(_, _, _, _, _)
RECURSIVE CpChildren(_, _, _, _, _, _, _)

\* The loop of lines 98..105 over the names left; result is the named result
\* err, which the return of line 155 gives when the loop ends.
CpChildren(st, source, dest, files, args, fault, result) ==
    IF files = <<>> THEN Ret(st, source, dest, result)
    ELSE LET sourceFilePath == Append(source, Head(files))
             destFilePath == Append(dest, Head(files))
             r == CpWithArgs(st, sourceFilePath, destFilePath, args, fault)
         IN  IF StopsLoop(r.err) THEN Ret(r, source, dest, r.err)
             ELSE CpChildren(r, source, dest, Tail(files), args, fault, result)

\* Lines 88..105: create dest, list source, copy the children.
CpInto(st, source, dest, args, fault, sourceInfo) ==
    LET mk == MkdirAll(st.fs, dest, sourceInfo.mode)
        s == Log([st EXCEPT !.fs = mk.fs], Ev("stage", source, dest, "mkdir", mk.err))
        files == ReadDir(mk.fs, source)
    IN  IF mk.err # "nil" THEN Ret(s, source, dest, mk.err)
        ELSE IF files.err # "nil" THEN Ret(s, source, dest, files.err)
        ELSE CpChildren(s, source, dest, files.names, args, fault, mk.err)

\* The dir case, lines 77..86.  The handle os.Open(dest) gives when dest
\* exists is dropped, never closed.
CpDir(st, source, dest, args, fault, sourceInfo) ==
    IF RefusesDirectory(args) THEN Ret(st, source, dest, "source is a directory")
    ELSE LET chk == Open(st.fs, dest) IN
         IF DestinationExists(chk.err)
         THEN Ret(IF chk.err = "nil" THEN OpenHandle(st, chk.node, "check") ELSE st,
                  source, dest, "destination already exists")
         ELSE CpInto(st, source, dest, args, fault, sourceInfo)

CpWithArgs(st, source, dest, args, fault) ==
    LET s0 == Log(st, Ev("call", source, dest, "", "nil"))
        sourceInfo == Stat(s0.fs, source)
    IN  IF sourceInfo.err # "nil" THEN Ret(s0, source, dest, sourceInfo.err)
        ELSE IF sourceInfo.info.kind = "dir"
             THEN CpDir(s0, source, dest, args, fault, sourceInfo.info)
             ELSE CpFile(s0, source, dest, args, fault, sourceInfo.err)

Cp(st, src, dest, fault) ==
    CpWithArgs(st, src, dest,
               [Recursive |-> FALSE, PreserveLinks |-> FALSE, PreserveTimestamps |-> FALSE], fault)

CpR(st, source, dest, fault) ==
    CpWithArgs(st, source, dest,
               [Recursive |-> TRUE, PreserveLinks |-> FALSE, PreserveTimestamps |-> FALSE], fault)

----------------------------------------------------------------------------
(* ChmodR *)

\* The function ChmodR hands to filepath.Walk.
walkFn(st, path, e, mode) ==
    IF e = "nil"
    THEN LET c == Chmod(st.fs, path, mode) IN
         [fs |-> c.fs, open |-> st.open, err |-> c.err,
          trace |-> Append(st.trace, Ev("chmod", path, path, "", c.err))]
    ELSE [st EXCEPT !.err = e]

\* filepath's readDirNames: open, Readdirnames, close, sort.
readDirNames(f, p) ==
    LET o == Open(f, p) IN
    IF o.err # "nil" THEN [err |-> o.err, names |-> <<>>]
    ELSE [err |-> "nil", names |-> SortedNames(f, o.node, 1)]

Listed(st, path, e) == Log(st, Ev("list", path, path, "", e))

RECURSIVE walk(_, _, _, _, _)
RECURSIVE walkNames(_, _, _, _, _)

walkNames(st, path, names, mode, listFirst) ==
    IF names = <<>> THEN [st EXCEPT !.err = "nil"]
    ELSE LET filename == Append(path, Head(names))
             fileInfo == Lstat(st.fs, filename)
             r == IF fileInfo.err # "nil" THEN walkFn(st, filename, fileInfo.err, mode)
                  ELSE walk(st, filename, fileInfo.info, mode, listFirst)
         IN  IF r.err # "nil" THEN r
             ELSE walkNames(r, path, Tail(names), mode, listFirst)

\* filepath's walk.  Releases of Go differ in one point: up to Go 1.9 walk
\* calls walkFn on a directory and then lists it, from Go 1.10 on it lists the
\* directory and then calls walkFn; listFirst says which the package is built
\* with.
walk(st, path, info, mode, listFirst) ==
    IF info.kind # "dir" THEN walkFn(st, path, "nil", mode)
    ELSE IF listFirst THEN
        LET names == readDirNames(st.fs, path)
            r == walkFn(Listed(st, path, names.err), path, names.err, mode)
        IN  IF names.err # "nil" \/ r.err # "nil" THEN r
            ELSE walkNames(r, path, names.names, mode, listFirst)
    ELSE
        LET r == walkFn(st, path, "nil", mode)
            names == readDirNames(r.fs, path)
        IN  IF r.err # "nil" THEN r
            ELSE IF names.err # "nil" THEN walkFn(Listed(r, path, names.err), path, names.err, mode)
            ELSE walkNames(Listed(r, path, names.err), path, names.names, mode, listFirst)

ChmodR(st, name, mode, listFirst) ==
    LET info == Lstat(st.fs, name) IN
    IF info.err # "nil" THEN walkFn(st, name, info.err, mode)
    ELSE walk(st, name, info.info, mode, listFirst)

----------------------------------------------------------------------------
(* The file systems a call starts from: what each path may hold.  Files are  *)
(* old (mtime 0); what a call writes is new (mtime 1).                       *)

Options(p) ==
    IF p = <<"a">> THEN {Dir(7), Dir(5), File(1, 6, 0), File(1, 0, 0)}
    ELSE IF p = <<"a", "a">> THEN {NoNode, File(1, 4, 0), Dir(7), Link(<<"b">>)}
    ELSE IF p = <<"a", "b">> THEN {NoNode, File(2, 0, 0), Link(<<"a">>)}
    ELSE IF p = <<"a", "a", "a">> THEN {NoNode, File(2, 6, 0)}
    ELSE {NoNode, File(2, 6, 0), Dir(7), Link(<<"a">>), Link(<<"a", "a">>)}

Populated == <<<<"a">>, <<"b">>, <<"a", "a">>, <<"a", "b">>, <<"a", "a", "a">>>>

\* What each path of Populated holds, in that order.
Holdings ==
    {<<n1, n2, n3, n4, n5>> :
        n1 \in Options(Populated[1]), n2 \in Options(Populated[2]),
        n3 \in Options(Populated[3]), n4 \in Options(Populated[4]),
        n5 \in Options(Populated[5])}

\* Every entry but the top ones lies in a directory.
WellFormed(h) ==
    /\ h[3].kind # "none" \/ h[4].kind # "none" => h[1].kind = "dir"
    /\ h[5].kind # "none" => h[3].kind = "dir"

FileSystemOf(h) ==
    [p \in {Populated[i] : i \in {j \in 1..Len(Populated) : h[j].kind # "none"}} |->
        h[CHOOSE i \in 1..Len(Populated) : Populated[i] = p]]

FileSystems == {FileSystemOf(h) : h \in {g \in Holdings : WellFormed(g)}}

Modes == {0, 4, 5, 6, 7}

NoCall ==
    [op |-> "none", source |-> <<>>, dest |-> <<>>,
     args |-> [Recursive |-> FALSE, PreserveLinks |-> FALSE, PreserveTimestamps |-> FALSE],
     fault |-> "none", mode |-> 0, listFirst |-> FALSE]

Init ==
    /\ fs \in FileSystems
    /\ privileged \in BOOLEAN
    /\ pc = "idle"
    /\ last = NoCall
    /\ pre = fs
    /\ err = "nil"
    /\ open = <<>>
    /\ trace = <<>>

Start == [fs |-> fs, open |-> open, err |-> "nil", trace |-> <<>>]

Returned(r, call) ==
    /\ pc' = "returned"
    /\ fs' = r.fs
    /\ open' = r.open
    /\ err' = r.err
    /\ trace' = r.trace
    /\ last' = call
    /\ pre' = fs
    /\ UNCHANGED privileged

CallCp ==
    /\ pc = "idle"
    /\ \E src \in ArgPaths, dest \in ArgPaths, fault \in Faults :
          Returned(Cp(Start, src, dest, fault),
                   [NoCall EXCEPT !.op = "Cp", !.source = src, !.dest = dest, !.fault = fault])

CallCpR ==
    /\ pc = "idle"
    /\ \E source \in ArgPaths, dest \in ArgPaths, fault \in Faults :
          Returned(CpR(Start, source, dest, fault),
                   [NoCall EXCEPT !.op = "CpR", !.source = source, !.dest = dest,
                                  !.args.Recursive = TRUE, !.fault = fault])

CallCpWithArgs ==
    /\ pc = "idle"
    /\ \E source \in ArgPaths, dest \in ArgPaths, args \in CpArgs, fault \in Faults :
          Returned(CpWithArgs(Start, source, dest, args, fault),
                   [NoCall EXCEPT !.op = "CpWithArgs", !.source = source, !.dest = dest,
                                  !.args = args, !.fault = fault])

CallChmodR ==
    /\ pc = "idle"
    /\ \E name \in ArgPaths, mode \in Modes, listFirst \in BOOLEAN :
          Returned(ChmodR(Start, name, mode, listFirst),
                   [NoCall EXCEPT !.op = "ChmodR", !.source = name, !.mode = mode,
                                  !.listFirst = listFirst])

Next == CallCp \/ CallCpR \/ CallCpWithArgs \/ CallChmodR

Spec == Init /\ [][Next]_vars

----------------------------------------------------------------------------
(* What the claims speak of *)

\* A call of CpWithArgs has returned, made directly or through Cp or CpR.
Copied == pc = "returned" /\ last.op \in {"Cp", "CpR", "CpWithArgs"}

\* The entries of the tree at root, as paths relative to root (<<>>: root).
SubPaths(f, root) ==
    {SubSeq(p, Len(root) + 1, Len(p)) : p \in {q \in DOMAIN f : IsPrefix(root, q)}}

\* The indices of the trace's events of one kind.
Events(kind) == {i \in 1..Len(trace) : trace[i].ev = kind}

FileStages == <<"open", "create", "copy", "chmod", "chtimes", "sync">>

StageNo(what) == CHOOSE k \in 1..Len(FileStages) : FileStages[k] = what

NameNo(name) == CHOOSE k \in 1..Len(NameOrder) : NameOrder[k] = name

----------------------------------------------------------------------------
(* C4 *)

\* The call was CpWithArgs on a source that os.Stat reports as a directory,
\* with Recursive unset.
NonRecursiveOnDirectory ==
    /\ Copied
    /\ Stat(pre, last.source).info.kind = "dir"
    /\ ~last.args.Recursive

\* C4: CpWithArgs on a directory source with args.Recursive = false, whatever
\* PreserveLinks and PreserveTimestamps are and whether dest exists or not,
\* returns the "source is a directory" error and leaves the whole file system
\* as it was: nothing created, truncated or chmod-ed.
C4_NonRecursiveDirectoryRefused ==
    NonRecursiveOnDirectory => err = "source is a directory" /\ fs = pre

\* Such a call, with both preserve flags set and a dest that exists.
C4_Witness ==
    /\ NonRecursiveOnDirectory
    /\ last.args.PreserveLinks /\ last.args.PreserveTimestamps
    /\ Stat(pre, last.dest).info.kind = "file"
    /\ err = "source is a directory"

----------------------------------------------------------------------------
(* C3 *)

\* dest exists, as a file or as a directory, when the call starts.
DestExisted == Copied /\ Stat(pre, last.dest).info.kind \in {"file", "dir"}

----------------------------------------------------------------------------
(* C10 *)

\* The children of the call on source are copied one at a time, in the order
\* of the listing: of two calls on names of one directory, the earlier is on
\* the earlier name and has returned before the later starts.
ChildrenInListingOrder ==
    \A i \in Events("call") : \A j \in Events("call") :
        i < j /\ Parent(trace[i].src) = Parent(trace[j].src)
            => /\ NameNo(trace[i].src[Len(trace[i].src)]) < NameNo(trace[j].src[Len(trace[j].src)])
               /\ \E k \in Events("ret") : i < k /\ k < j /\ trace[k].src = trace[i].src

\* The copy of a child fails: a call on a path below source returns an error,
\* or a stage of it fails.
ChildFailure(i) ==
    /\ trace[i].ev \in {"ret", "stage"}
    /\ trace[i].err # "nil"
    /\ Len(trace[i].src) > Len(last.source)

\* Once the copy of a child has failed nothing more is copied: every call
\* still running returns that error, which is the one the caller gets.
ChildFailureAborts ==
    \A i \in 1..Len(trace) :
        ChildFailure(i)
            => /\ \A j \in (i + 1)..Len(trace) : trace[j].ev = "ret" /\ trace[j].err = trace[i].err
               /\ err = trace[i].err

\* What was created stays: the destination of every mkdir that succeeded and
\* of every call that returned without error is there when the call returns.
NothingRolledBack ==
    \A i \in 1..Len(trace) :
        \/ trace[i].ev = "stage" /\ trace[i].what = "mkdir" /\ trace[i].err = "nil"
        \/ trace[i].ev = "ret" /\ trace[i].err = "nil"
        => Lstat(fs, trace[i].dst).err = "nil"

\* C10: in a recursive directory copy the children are copied one at a time
\* in directory-listing order; when the copy of child k fails, CpWithArgs
\* returns that child's error, no child after k is copied, and the destination
\* directory and the copies of the children before k remain in place.
C10_FirstFailingChildAborts ==
    Copied => ChildrenInListingOrder /\ ChildFailureAborts /\ NothingRolledBack

\* The same with no error from out.Sync(): the failure the loop does not see
\* is the one CpWithArgs does not return (C7).
C10_ExceptSync ==
    last.fault # "sync" => C10_FirstFailingChildAborts

\* A recursive copy whose first child was copied and whose second child
\* failed: the call returns the second child's error, the first copy is there.
C10_SecondChildFails ==
    /\ Copied
    /\ last.args.Recursive /\ last.fault # "sync"
    /\ \E i \in Events("ret") : \E j \in Events("ret") :
          /\ i < j
          /\ Parent(trace[i].src) = last.source /\ trace[i].err = "nil"
          /\ Parent(trace[j].src) = last.source /\ trace[j].err # "nil"
          /\ err = trace[j].err
          /\ Lstat(fs, trace[i].dst).info.kind = "file"

----------------------------------------------------------------------------
(* C1 *)

\* Cp(f, f') has returned with no I/O error on the way, f being a regular file
\* the caller can open.
CpOfRegularFile ==
    /\ pc = "returned" /\ last.op = "Cp" /\ last.fault = "none"
    /\ Lstat(pre, last.source).info.kind = "file"
    /\ Open(pre, last.source).err = "nil"

\* f' is a regular file with the content and the mode f had, and f is as it was.
CopiedContentAndMode ==
    /\ err = "nil"
    /\ Stat(fs, last.dest).info.kind = "file"
    /\ Stat(fs, last.dest).info.content = Lstat(pre, last.source).info.content
    /\ Stat(fs, last.dest).info.mode = Lstat(pre, last.source).info.mode
    /\ Lstat(fs, last.source).info = Lstat(pre, last.source).info

\* C1: for every regular file f with content C and mode M and every
\* destination path f' that can be created (there is no f', and an entry can
\* be made in its directory), Cp(f, f') returns no error and afterwards f' is
\* a regular file with content C and mode M, and f itself is unchanged.
C1_CpCopiesContentAndMode ==
    CpOfRegularFile /\ MakeEntry(pre, last.dest, NoNode).err = "nil"
        => CopiedContentAndMode

\* Such a copy, of a file whose mode is not the one os.Create gives.
C1_Witness ==
    /\ CpOfRegularFile /\ MakeEntry(pre, last.dest, NoNode).err = "nil"
    /\ Lstat(pre, last.source).info.mode # CreateMode
    /\ Lstat(pre, last.source).info.content # 0
    /\ CopiedContentAndMode

\* The same holds over an f' that is there and os.Create truncates, unless f'
\* names f itself, which Cp then leaves empty.
C1_OverExistingFile ==
    /\ CpOfRegularFile /\ Create(pre, last.dest).err = "nil"
    /\ Resolve(pre, last.dest, TRUE).path # Resolve(pre, last.source, FALSE).path
    => CopiedContentAndMode

----------------------------------------------------------------------------
(* C2 *)

\* CpR(T, T') has returned with no I/O error on the way, T being a directory
\* without symbolic links whose files the caller can read, and T' a path that
\* does not exist and can be created, outside of T and short enough for every
\* path of the copy to be one a system call accepts.
CpROfPlainTree ==
    /\ pc = "returned" /\ last.op = "CpR" /\ last.fault = "none"
    /\ Lstat(pre, last.source).info.kind = "dir"
    /\ LET T == Resolve(pre, last.source, FALSE).path
           d == Resolve(pre, last.dest, FALSE)
       IN  /\ Mkdir(pre, last.dest, 7).err = "nil" /\ ~IsPrefix(T, d.path)
           /\ \A r \in SubPaths(pre, T) :
                 /\ pre[T \o r].kind # "link"
                 /\ pre[T \o r].kind = "file" => CanRead(pre[T \o r])
                 /\ Len(last.dest) + Len(r) <= PathMax

\* C2: for every directory tree T and every non-existing destination T',
\* CpR(T, T') returns no error and afterwards T' has exactly the relative
\* paths of T, every non-symlink entry with the kind, the content and the mode
\* of the entry at the same relative path of T.
C2_CpRCopiesTree ==
    CpROfPlainTree =>
        /\ err = "nil"
        /\ LET T == Resolve(pre, last.source, FALSE).path
               D == Resolve(fs, last.dest, TRUE).path
           IN  /\ SubPaths(fs, D) = SubPaths(pre, T)
               /\ \A r \in SubPaths(pre, T) :
                     /\ fs[D \o r].kind = pre[T \o r].kind
                     /\ fs[D \o r].content = pre[T \o r].content
                     /\ fs[D \o r].mode = pre[T \o r].mode

\* The same for a tree whose directories the caller may write to.
C2_ExceptReadOnlyDirectories ==
    (\A p \in DOMAIN pre :
        IsPrefix(Resolve(pre, last.source, FALSE).path, p) /\ pre[p].kind = "dir"
            => CanWrite(pre[p]))
        => C2_CpRCopiesTree

----------------------------------------------------------------------------
(* C5 *)

\* CpWithArgs(L, L', CpArgs{PreserveLinks: true}) has returned, L being a
\* symbolic link and L' a path that does not exist and can be created.
PreservingCopyOfLink ==
    /\ pc = "returned" /\ last.op = "CpWithArgs" /\ last.fault = "none"
    /\ last.args = [Recursive |-> FALSE, PreserveLinks |-> TRUE, PreserveTimestamps |-> FALSE]
    /\ Lstat(pre, last.source).info.kind = "link"
    /\ Symlink(Root, pre, last.dest).err = "nil"

\* C5: for every symbolic link L, whatever its target P is (a regular file, a
\* directory or a path that does not exist), and every non-existing L',
\* CpWithArgs(L, L', CpArgs{PreserveLinks: true}) returns no error and
\* afterwards L' is a symbolic link with target P; nothing else is created
\* and the content of P is not read.
C5_LinkCopiedAsLink ==
    PreservingCopyOfLink =>
        /\ err = "nil"
        /\ Lstat(fs, last.dest).info = Lstat(pre, last.source).info
        /\ fs = Symlink(Lstat(pre, last.source).info.target, pre, last.dest).fs
        /\ \A i \in Events("stage") : trace[i].what = "symlink"

\* The same for a link whose target is there and is no directory.
C5_ExceptDanglingAndDirectoryLinks ==
    Stat(pre, last.source).info.kind = "file" => C5_LinkCopiedAsLink

----------------------------------------------------------------------------
(* C6 *)

\* The entries of the tree ChmodR was called on, as paths.
WalkedEntries == {p \in DOMAIN pre : IsPrefix(last.source, p)}

\* ChmodR(T, M) has returned, T being a directory in which every symbolic
\* link resolves.
ChmodROfTree ==
    /\ pc = "returned" /\ last.op = "ChmodR"
    /\ Lstat(pre, last.source).info.kind = "dir"
    /\ \A p \in WalkedEntries : Stat(pre, p).err = "nil"

\* The mode lets the caller list and search a directory that has it.
LetsTheWalkIn == privileged \/ (last.mode \div 4 = 1 /\ last.mode % 2 = 1)

\* Every entry of T, T included, has mode M (a link: the entry it leads to).
EveryEntryHasMode ==
    \A p \in WalkedEntries :
        IF pre[p].kind = "link"
        THEN Stat(fs, p).info.mode = last.mode
        ELSE fs[p].mode = last.mode

\* A directory's mode is changed before its children are visited.
ChangedBeforeChildrenVisited ==
    \A i \in Events("chmod") : \A j \in Events("chmod") :
        trace[i].src = Parent(trace[j].src) => i < j

\* A directory's mode is changed before its children are listed.
ChangedBeforeChildrenListed ==
    \A i \in Events("chmod") : \A j \in Events("list") :
        trace[i].src = trace[j].src => i < j

\* C6: for every directory tree T and every mode M, the modes without the
\* search or the read bit included, after ChmodR(T, M) every entry reachable
\* from T, T included, has mode M; the walk is pre-order, a directory's mode
\* is changed before its children are visited.
C6_EveryEntryHasMode ==
    ChmodROfTree => EveryEntryHasMode /\ ChangedBeforeChildrenVisited

\* The same, without error, for a mode that has the read and the search bit
\* and for a privileged caller.
C6_ExceptModesThatLockTheWalkOut ==
    ChmodROfTree /\ LetsTheWalkIn => err = "nil" /\ C6_EveryEntryHasMode

\* Built with a release of Go whose walk calls walkFn before it lists, ChmodR
\* changes a directory's mode before it lists the directory.
C6_ChangedBeforeListed ==
    ChmodROfTree /\ ~last.listFirst => ChangedBeforeChildrenListed

----------------------------------------------------------------------------
(* C7 *)

IsFileStage(i) ==
    trace[i].ev = "stage" /\ \E k \in 1..Len(FileStages) : FileStages[k] = trace[i].what

\* The stages of one file copy run in the order open, create, copy, chmod,
\* chtimes, sync, chtimes only with PreserveTimestamps.
StagesInOrder ==
    \A i \in 1..Len(trace) : \A j \in 1..Len(trace) :
        /\ IsFileStage(i) /\ IsFileStage(j) /\ i < j
        /\ trace[i].src = trace[j].src /\ trace[i].dst = trace[j].dst
        => StageNo(trace[i].what) < StageNo(trace[j].what)

ChtimesOnlyWhenAsked ==
    \A i \in Events("stage") : trace[i].what = "chtimes" => last.args.PreserveTimestamps

\* A stage that fails is the last thing its call does: the call returns then,
\* and what it returns is the error of that stage.
FailedStageIsReturned ==
    \A i \in 1..Len(trace) :
        IsFileStage(i) /\ trace[i].err # "nil"
            => i < Len(trace)
               /\ trace[i + 1] = Ev("ret", trace[i].src, trace[i].dst, "", trace[i].err)

\* The destination file a copy created, or truncated, is there at the end.
DestinationKept ==
    \A i \in Events("stage") :
        trace[i].what = "create" /\ trace[i].err = "nil"
            => Stat(fs, trace[i].dst).info.kind = "file"

\* C7: in the non-directory branch the stages run in the order open source,
\* create dest, copy bytes, chmod dest, chtimes dest (only with
\* PreserveTimestamps), sync dest; when a stage fails no later stage runs and
\* CpWithArgs returns that stage's error, a failing sync included; the
\* destination file is not removed.
C7_FailedStageAbortsWithItsError ==
    Copied => StagesInOrder /\ ChtimesOnlyWhenAsked /\ FailedStageIsReturned /\ DestinationKept

\* The same with no error from out.Sync().
C7_ExceptSync ==
    last.fault # "sync" => C7_FailedStageAbortsWithItsError

----------------------------------------------------------------------------
(* C8 *)

\* C8: when a call of CpWithArgs has returned, with success or with an error,
\* from the directory branch or from the file branch, every handle it opened
\* (on the source, on the destination, by the destination-exists check) is
\* closed: the open handles are those of before the call, none.
C8_NoHandleLeftOpen == Copied => open = <<>>

\* The same for the calls that do not find dest in the directory branch.
C8_ExceptDestinationExistsCheck ==
    err # "destination already exists" => C8_NoHandleLeftOpen

----------------------------------------------------------------------------
(* C9 *)

\* The entries of the source tree when the call starts (none: no such source).
SourceEntries ==
    IF Stat(pre, last.source).err # "nil" THEN {}
    ELSE SubPaths(pre, Resolve(pre, last.source, TRUE).path)

\* C9: for every file system, source, dest (a dest inside the source tree and
\* a source tree with a link to one of its ancestors included) and CpArgs
\* value, CpWithArgs returns after a number of recursive calls bounded by the
\* number of entries of the source tree as it was when the call started.
C9_CallsBoundedBySourceTree ==
    Copied => Cardinality(Events("call")) - 1 <= Cardinality(SourceEntries)

\* The same for a source tree without links and a dest outside of it.
C9_ExceptDestInsideAndLinks ==
    /\ \A r \in SourceEntries : pre[Resolve(pre, last.source, TRUE).path \o r].kind # "link"
    /\ ~IsPrefix(Resolve(pre, last.source, TRUE).path, Resolve(pre, last.dest, TRUE).path)
    => C9_CallsBoundedBySourceTree

====
